---- MODULE Spec2Model ----
(***************************************************************************)
(* A model of BackFire 0.4.0 (src/src/backfire.js): the Backbone binding   *)
(* for Firebase.                                                           *)
(*                                                                         *)
(*   SpecRec   one Backbone.Firebase.Model (continuous or one-shot mode)   *)
(*   SpecColl  one Backbone.Firebase.Collection: membership, the           *)
(*             _suppressEvent flag and the remote child events             *)
(*   SpecItem  one member record of a collection: _childChanged and the    *)
(*             diff of Collection._updateModel                             *)
(*                                                                         *)
(* The calls the source makes into Backbone and Underscore (Model.set,     *)
(* Model.unset, changedAttributes, Collection.add, Function.apply, ...)    *)
(* are modelled by what those calls do, at the source line that makes them.*)
(***************************************************************************)
EXTENDS Integers, Sequences, FiniteSets, TLC

VARIABLES
  \* ---- one Backbone.Firebase.Model ----
  autoSync,      \* this.autoSync: TRUE continuous mode, FALSE one-shot mode
  attributes,    \* this.attributes: a map from keys to JavaScript values
  passed,        \* the attribute map the caller gave the constructor
  subscribed,    \* a 'value' subscription is registered on this.firebase
  oncePending,   \* the once('sync') listener of the constructor is still registered
  syncCount,     \* number of 'sync' notifications triggered so far
  defaultsRuns,  \* number of times the once('sync') listener has run
  valueCount,    \* number of remote 'value' events delivered so far
  nWrites,       \* number of remote writes the record has issued so far
  explicitSync,  \* save has been called on the record
  touched,       \* keys the caller has set or unset after construction
  recOp,         \* the last operation: its kind and the writes it issued
  \* ---- the remote node of the record (this.firebase) ----
  node,          \* the value stored at the node: an attribute map, or Null
  outbox,        \* writes the record has issued that the store has not applied yet
  inbox,         \* 'value' events the store has raised and not delivered yet
  input,         \* the caller or another client has made its one change
  destroys,      \* number of destroy() calls
  notices,       \* number of 'destroy' notifications triggered
  calls,         \* callbacks of destroy invoked: [success |-> n, error |-> n]
  \* ---- one member record of a Backbone.Firebase.Collection ----
  item,          \* [attrs: model.attributes, remote: model._remoteAttributes,
                 \*  changing: model._remoteChanging]
  itemOp,        \* the last operation on the member and what it did
  \* ---- one Backbone.Firebase.Collection and the node it is bound to ----
  models,        \* this.models: the member records, sorted by the comparator (id)
  suppress,      \* this._suppressEvent
  store,         \* the children of the remote node: id -> value
  events,        \* child events the remote store has not delivered yet
  replayed,      \* the ids left by the child_added and child_removed events
                 \* delivered so far: each added, each removed
  collOp         \* the last operation on the collection and what it did

nodeVars == <<node, outbox, inbox, input, destroys, notices, calls>>

recVars == <<autoSync, attributes, passed, subscribed, oncePending, syncCount,
             defaultsRuns, valueCount, nWrites, explicitSync, touched, recOp,
             nodeVars>>

itemVars == <<item, itemOp>>

collVars == <<models, suppress, store, events, replayed, collOp>>

vars == <<recVars, itemVars, collVars>>

-----------------------------------------------------------------------------
(* JavaScript values.  A string is the decimal numeral of n; an object has  *)
(* an identity ref and a content n.                                         *)

Undefined == [t |-> "undefined", n |-> 0, ref |-> 0]
Null      == [t |-> "null", n |-> 0, ref |-> 0]
Num(n)    == [t |-> "num", n |-> n, ref |-> 0]
Str(n)    == [t |-> "str", n |-> n, ref |-> 0]
Obj(r, n) == [t |-> "obj", n |-> n, ref |-> r]

\* value === undefined || value === null
IsNullish(v) == v.t \in {"undefined", "null"}

\* _.isEqual(a, b): deep equality, the identity of an object does not count
IsEqual(a, b) == a.t = b.t /\ a.n = b.n

\* a != b of JavaScript: null and undefined equal each other only, a number
\* and a numeric string are compared as numbers, objects by identity
LooseNeq(a, b) ==
  IF IsNullish(a) \/ IsNullish(b) THEN ~(IsNullish(a) /\ IsNullish(b))
  ELSE IF a.t = "obj" \/ b.t = "obj" THEN ~(a.t = b.t /\ a.ref = b.ref)
  ELSE a.n # b.n

-----------------------------------------------------------------------------
(* Attribute maps: functions from a finite set of keys to values.           *)

EmptyMap == [k \in {} |-> Null]
Get(m, k) == IF k \in DOMAIN m THEN m[k] ELSE Undefined
Put(m, k, v) == [x \in DOMAIN m \cup {k} |-> IF x = k THEN v ELSE m[x]]
Without(m, S) == [x \in DOMAIN m \ S |-> m[x]]
\* _.extend(m, n)
Extend(m, n) == [x \in DOMAIN m \cup DOMAIN n |-> IF x \in DOMAIN n THEN n[x] ELSE m[x]]
\* _.defaults(m, d): fills the keys whose value in m is undefined
DefaultsOf(m, d) ==
  [x \in DOMAIN m \cup DOMAIN d |->
     IF x \in DOMAIN d /\ Get(m, x) = Undefined THEN d[x] ELSE m[x]]

\* every key of the model, in the order _.keys enumerates them (the keys
\* that are numerals come first)
KeyOrder == <<"1", "2", "id", "name", "a", "b", "v", "w", ".priority">>
\* _.keys restricted to S
InOrder(S) == SelectSeq(KeyOrder, LAMBDA k : k \in S)

-----------------------------------------------------------------------------
(* Bounds and inputs of SpecRec.                                            *)

MaxRecWrites == 3
MaxValues == 2

\* the record type's declared defaults (_.result(this, 'defaults'))
Defaults == [k \in {"b"} |-> Num(2)]
\* snap.name() of the record's node
SnapName == Str(7)

RecVals == {Num(1), Num(2)}
\* attribute maps over the keys "a" and "b"
RecMaps == UNION {[S -> RecVals] : S \in SUBSET {"a", "b"}}
\* snap.val(): an object with at least one key, or null when the node does
\* not exist (the store holds no empty object)
SnapVals == (RecMaps \ {EmptyMap}) \cup {Null}

\* typeof x === 'object' && x !== null: an attribute map, not a null or a
\* scalar (a JavaScript value has the fields t, n and ref)
IsObject(x) == DOMAIN x # {"t", "n", "ref"}

\* String(v) of a scalar, the property name it makes when it is used as a key
ToKey(v) == IF v.n = 1 THEN "1" ELSE "2"

Update(m) == [op |-> "update", val |-> m]
SetWrite(m) == [op |-> "set", val |-> m]

-----------------------------------------------------------------------------
(* Backbone.Firebase.Model                                                  *)

\* Backbone.Model's constructor, called at line 128: the attributes given by
\* the caller, with the declared defaults filled in (Backbone's constructor
\* itself does attrs = _.defaults({}, attrs, _.result(this, 'defaults')))
BackboneModel(attrs) == DefaultsOf(attrs, Defaults)

\* the keys a Model.set(new) changes: those whose value is not _.isEqual
ChangedKeys(attrs, new) == {k \in DOMAIN new : ~IsEqual(Get(attrs, k), new[k])}

\* _updateModel of the record: model.changedAttributes() with the deleted
\* keys set to null, and a deleted id dropped
Model_updateModel(changed) ==
  [k \in {x \in DOMAIN changed : ~(IsNullish(changed[x]) /\ x = "id")} |->
     IF IsNullish(changed[k]) THEN Null ELSE changed[k]]

\* the callback SyncModel gives _listenLocalChange: this.firebase.update(model)
SyncModelCb(attrs, newModel) == [attrs |-> attrs, writes |-> <<Update(newModel)>>]

\* a faulty OnceModel callback: it pushes like the continuous one
OnceModelCb_Pushes(attrs, newModel) == [attrs |-> attrs, writes |-> <<Update(newModel)>>]

\* the callback OnceModel gives _listenLocalChange: this.set(model, {silent: true})
OnceModelCb(attrs, newModel) == [attrs |-> Extend(attrs, newModel), writes |-> <<>>]

\* the 'change' listener registered by _listenLocalChange
ListenLocalChange(sync, attrs, changed) ==
  LET newModel == Model_updateModel(changed) IN
  IF sync THEN SyncModelCb(attrs, newModel) ELSE OnceModelCb(attrs, newModel)

\* this.set(new, {silent: silent}) on the record, its 'change' listener included
ModelSet(sync, attrs, new, silent) ==
  LET ch   == ChangedKeys(attrs, new)
      next == Extend(attrs, new)
  IN  IF ch = {} \/ silent THEN [attrs |-> next, writes |-> <<>>]
      ELSE ListenLocalChange(sync, next, [k \in ch |-> new[k]])

\* this.unset(key) on the record, its 'change' listener included
ModelUnset(sync, attrs, key) ==
  LET next == Without(attrs, {key}) IN
  IF IsEqual(Get(attrs, key), Undefined) THEN [attrs |-> next, writes |-> <<>>]
  ELSE ListenLocalChange(sync, next, [k \in {key} |-> Undefined])

\* the _.each(diff, unset) loop of _processChanges
RECURSIVE UnsetAll(_, _, _)
UnsetAll(sync, attrs, ks) ==
  IF ks = <<>> THEN [attrs |-> attrs, writes |-> <<>>]
  ELSE LET r    == ModelUnset(sync, attrs, Head(ks))
           rest == UnsetAll(sync, r.attrs, Tail(ks))
       IN  [attrs |-> rest.attrs, writes |-> r.writes \o rest.writes]

\* _setId: a record that isNew() takes snap.name() as its id, silently
SetId(attrs) ==
  IF IsNullish(Get(attrs, "id")) THEN Put(attrs, "id", SnapName) ELSE attrs

\* _processChanges: unset the keys the snapshot does not hold, then _setId
ProcessChanges(sync, attrs, snapVal) ==
  LET u == IF IsObject(snapVal)
           THEN UnsetAll(sync, attrs, InOrder(DOMAIN attrs \ DOMAIN snapVal))
           ELSE [attrs |-> attrs, writes |-> <<>>]
  IN  [attrs |-> SetId(u.attrs), writes |-> u.writes]

\* _setLocal: _processChanges, then this.set(newModel).  set(null) returns
\* at once; set(scalar) takes the scalar as a key and undefined as its value
\* (Backbone's set(key, val) with no val)
SetLocal(sync, attrs, snapVal) ==
  LET p == ProcessChanges(sync, attrs, snapVal)
      s == IF IsObject(snapVal) THEN ModelSet(sync, p.attrs, snapVal, FALSE)
           ELSE IF snapVal = Null THEN [attrs |-> p.attrs, writes |-> <<>>]
           ELSE ModelSet(sync, p.attrs, [k \in {ToKey(snapVal)} |-> Undefined], FALSE)
  IN  [attrs |-> s.attrs, writes |-> p.writes \o s.writes]

\* a faulty once('sync') listener: the defaults overwrite what the record holds
ApplyDefaults_Overwrites(sync, attrs) == ModelSet(sync, attrs, Extend(attrs, Defaults), FALSE)

\* the once('sync') listener of the constructor:
\* this.set(_.defaults(this.toJSON(), defaults))
ApplyDefaults(sync, attrs) == ModelSet(sync, attrs, DefaultsOf(attrs, Defaults), FALSE)

\* a faulty trigger: 'sync' is emitted for the first value only
TriggerSync_FirstOnly(count) == IF count = 0 THEN 1 ELSE count

\* this.trigger('sync', this, null, null) of the 'value' handler
TriggerSync(count) == count + 1

-----------------------------------------------------------------------------
(* Backbone.Firebase.Collection: one member record.                         *)

\* snap.name() of the member's node
ItemName == Str(8)

\* Objects of the current snapshot have identity 1, objects the caller makes
\* have identity 2: _childAdded and _childChanged hand the snapshot's own
\* objects to the record, so a member holds an object of identity 1 exactly
\* when it took it from its last snapshot.
ItemSnapVals == {Num(1), Num(2), Str(1), Obj(1, 1)}
ItemLocalVals == {Num(1), Num(2), Str(1), Obj(2, 1)}
\* snap.val() of a child: an object with at least one of the keys "v" and
\* "w" (a snapshot's value never holds ".priority", and the store holds no
\* empty object)
ItemSnapMaps ==
  {Extend(a, b) : a \in UNION {[S -> ItemSnapVals] : S \in SUBSET {"v"}},
                  b \in UNION {[S -> {Num(1)}] : S \in SUBSET {"w"}}} \ {EmptyMap}
\* what the caller may give to set() on a member
ItemSets ==
  UNION {[{"v"} -> ItemLocalVals], [{"w"} -> {Num(1)}],
         [{".priority"} -> {Num(1), Null}]}

\* if (!model.id) model.id = snap.name()
WithId(model, name) ==
  IF IsNullish(Get(model, "id")) THEN Put(model, "id", name) ELSE model

\* a faulty diff: it walks the record's own keys only, not the union
Diff_LocalKeysOnly(remoteAttributes, localAttributes) ==
  [k \in {x \in DOMAIN localAttributes :
            LooseNeq(localAttributes[x], Get(remoteAttributes, x))} |->
     localAttributes[k]]

\* the diff of Collection._updateModel (lines 448-459): over the union of
\* the keys, null for a key the record no longer has, the local value for a
\* key whose local value != the remote one
Diff(remoteAttributes, localAttributes) ==
  LET union == DOMAIN remoteAttributes \cup DOMAIN localAttributes
      patched == {k \in union :
                    \/ k \notin DOMAIN localAttributes
                    \/ LooseNeq(localAttributes[k], Get(remoteAttributes, k))}
  IN  [k \in patched |->
         IF k \in DOMAIN localAttributes THEN localAttributes[k] ELSE Null]

\* a faulty push: every non-empty patch goes out as a merge-update
PushPatch_MergeOnly(id, localAttributes, updateAttributes) ==
  IF updateAttributes = EmptyMap THEN <<>>
  ELSE <<[op |-> "update", id |-> id, val |-> updateAttributes, priority |-> Undefined]>>

\* lines 461-472: nothing for an empty patch, setWithPriority of the whole
\* record when the patch holds ".priority", a merge-update otherwise
PushPatch(id, localAttributes, updateAttributes) ==
  IF updateAttributes = EmptyMap THEN <<>>
  ELSE IF ".priority" \in DOMAIN updateAttributes
       THEN <<[op |-> "setWithPriority", id |-> id,
               val |-> Without(localAttributes, {".priority"}),
               priority |-> Get(localAttributes, ".priority")]>>
       ELSE <<[op |-> "update", id |-> id, val |-> updateAttributes,
               priority |-> Undefined]>>

\* Collection._updateModel, the listener of every member's 'change'
Collection_updateModel(model) ==
  IF model.changing THEN [writes |-> <<>>, patch |-> EmptyMap, computed |-> FALSE]
  ELSE LET updateAttributes == Diff(model.remote, model.attrs)
       IN  [writes |-> PushPatch(Get(model.attrs, "id"), model.attrs, updateAttributes),
            patch |-> updateAttributes, computed |-> TRUE]

\* a faulty _preventSync: the flag is never written
PreventSync_Lost(model, state) == model

\* _preventSync
PreventSync(model, state) == [model EXCEPT !.changing = state]

\* what one run of the 'change' listener adds to the record of an operation
Listened(model) == Collection_updateModel(model) @@ [seen |-> {model.changing}]

\* an operation that ran no listener
Quiet == [writes |-> <<>>, patch |-> EmptyMap, computed |-> FALSE, seen |-> {}]

\* two parts of one operation, in order; the patch kept is the last computed
Then(r, q) ==
  [writes |-> r.writes \o q.writes, seen |-> r.seen \cup q.seen,
   computed |-> r.computed \/ q.computed,
   patch |-> IF q.computed THEN q.patch ELSE r.patch]

\* member.set(new): Backbone's set and the collection's 'change' listener
ItemSet(model, new) ==
  LET next == [model EXCEPT !.attrs = Extend(model.attrs, new)] IN
  IF ChangedKeys(model.attrs, new) = {}
  THEN [model |-> next, did |-> Quiet]
  ELSE [model |-> next, did |-> Listened(next)]

\* member.unset(key)
ItemUnset(model, key) ==
  LET next == [model EXCEPT !.attrs = Without(model.attrs, {key})] IN
  IF IsEqual(Get(model.attrs, key), Undefined)
  THEN [model |-> next, did |-> Quiet]
  ELSE [model |-> next, did |-> Listened(next)]

\* the _.each(diff, unset) loop of _childChanged
RECURSIVE ItemUnsetAll(_, _)
ItemUnsetAll(model, ks) ==
  IF ks = <<>> THEN [model |-> model, did |-> Quiet]
  ELSE LET r    == ItemUnset(model, Head(ks))
           rest == ItemUnsetAll(r.model, Tail(ks))
       IN  [model |-> rest.model, did |-> Then(r.did, rest.did)]

\* _childChanged for the member found: lines 414-423
ChildChangedItem(found, model) ==
  LET m1 == [PreventSync(found, TRUE) EXCEPT !.remote = model]
      u  == ItemUnsetAll(m1, InOrder(DOMAIN m1.attrs \ DOMAIN model))
      s  == ItemSet(u.model, model)
  IN  [model |-> PreventSync(s.model, FALSE), did |-> Then(u.did, s.did)]

\* the member as _childAdded leaves it: the record made of the snapshot's
\* value, which is also cached as its _remoteAttributes
NewItem(model) == [attrs |-> model, remote |-> model, changing |-> FALSE]

-----------------------------------------------------------------------------
(* Backbone.Firebase.Collection: membership and the remote child events.    *)

MaxEvents == 2

\* the ids of the children: the child with id i has the name Str(i)
CollIds == {1, 2}
\* the records the caller adds and the values other clients write
CollRec(i, n) == [k \in {"id", "name"} |-> IF k = "id" THEN Str(i) ELSE Num(n)]
CollRecs == {CollRec(1, 1), CollRec(1, 2), CollRec(2, 1)}
IdOf(model) == model["id"].n

\* The remote store (Firebase) after set(value) on the child id, and the
\* child event the set raises: child_removed for null on an existing child,
\* child_added for a new child, child_changed for a new value, none when
\* nothing changes.  The event carries the origin of the write: local (a
\* write of this collection), silent (made with silent: true) and solo (the
\* only write of its call, made while _suppressEvent was false).
StoreSet(st, evs, id, value, origin) ==
  LET ev(kind, val) == [kind |-> kind, id |-> id, val |-> val] @@ origin
  IN  IF value = Null
      THEN IF id \in DOMAIN st
           THEN [store |-> Without(st, {id}),
                 events |-> Append(evs, ev("child_removed", st[id]))]
           ELSE [store |-> st, events |-> evs]
      ELSE IF id \notin DOMAIN st
           THEN [store |-> Put(st, id, value),
                 events |-> Append(evs, ev("child_added", value))]
           ELSE IF st[id] # value
                THEN [store |-> Put(st, id, value),
                      events |-> Append(evs, ev("child_changed", value))]
                ELSE [store |-> st, events |-> evs]

\* the loop of add (lines 296-303) and of remove (lines 314-321): for each
\* parsed model, raise the flag when silent, then set the child
RECURSIVE SetEach(_, _, _, _, _, _)
SetEach(st, evs, flag, recs, origin, removing) ==
  IF recs = <<>> THEN [store |-> st, events |-> evs, flag |-> flag, writes |-> <<>>]
  ELSE LET model == Head(recs)
           value == IF removing THEN Null ELSE model
           r     == StoreSet(st, evs, IdOf(model), value, origin)
           rest  == SetEach(r.store, r.events, flag \/ origin.silent, Tail(recs),
                            origin, removing)
       IN  [rest EXCEPT !.writes = <<[op |-> "set", id |-> IdOf(model), val |-> value]>> \o @]

\* Backbone.Collection.prototype.add(model, options): a model whose id is
\* already a member is left alone (no merge), a new one is inserted where the
\* comparator puts it and, unless silent, "add" is triggered
BackboneAdd(ms, model, silent) ==
  IF \E i \in 1..Len(ms) : IdOf(ms[i].attrs) = IdOf(model)
  THEN [models |-> ms, applied |-> FALSE, notified |-> FALSE]
  ELSE LET before == SelectSeq(ms, LAMBDA m : IdOf(m.attrs) < IdOf(model))
           after  == SelectSeq(ms, LAMBDA m : IdOf(m.attrs) > IdOf(model))
       IN  [models |-> before \o <<NewItem(model)>> \o after, applied |-> TRUE,
            notified |-> ~silent]

\* Backbone.Collection.prototype.remove(model, options)
BackboneRemove(ms, model, silent) ==
  IF \E i \in 1..Len(ms) : IdOf(ms[i].attrs) = IdOf(model)
  THEN [models |-> SelectSeq(ms, LAMBDA m : IdOf(m.attrs) # IdOf(model)),
        applied |-> TRUE, notified |-> ~silent]
  ELSE [models |-> ms, applied |-> FALSE, notified |-> FALSE]

\* f.apply(this, [model], {silent: true}): Function.prototype.apply takes
\* the receiver and the argument array; what follows the array is not
\* passed on, so f runs without options
ApplySilent(options) == FALSE

\* this.get(model.id)._remoteAttributes = model
CacheRemote(ms, model) ==
  [i \in 1..Len(ms) |->
     IF IdOf(ms[i].attrs) = IdOf(model) THEN [ms[i] EXCEPT !.remote = model] ELSE ms[i]]

\* model.id = snap.name() on a snapshot value that is a scalar: the file is
\* in strict mode, where creating a property on a primitive raises a TypeError
AssignIdThrows(snapVal) == ~IsObject(snapVal)

\* _childAdded; a scalar value is replaced by {} before it takes its id
ChildAdded(ms, flag, snapVal, name) ==
  LET model == IF IsObject(snapVal) THEN WithId(snapVal, name)
               ELSE WithId(EmptyMap, name)
      a     == IF flag THEN BackboneAdd(ms, model, ApplySilent(TRUE))
               ELSE BackboneAdd(ms, model, FALSE)
  IN  [models |-> CacheRemote(a.models, model), flag |-> FALSE,
       applied |-> a.applied, notified |-> a.notified]

\* _childRemoved; a scalar value makes line 429 throw, before anything is done
ChildRemoved(ms, flag, snapVal, name) ==
  IF AssignIdThrows(snapVal)
  THEN [models |-> ms, flag |-> flag, applied |-> FALSE, notified |-> FALSE,
        threw |-> TRUE]
  ELSE LET model == WithId(snapVal, name)
           r     == IF flag THEN BackboneRemove(ms, model, ApplySilent(TRUE))
                    ELSE BackboneRemove(ms, model, FALSE)
       IN  [models |-> r.models, flag |-> FALSE, applied |-> r.applied,
            notified |-> r.notified, threw |-> FALSE]

\* a faulty _childChanged: a change for an unknown id makes up a record
Collection_childChanged_Fabricates(ms, snapVal, name) ==
  IF AssignIdThrows(snapVal)
  THEN [models |-> ms, threw |-> TRUE, applied |-> FALSE, did |-> Quiet]
  ELSE LET model == WithId(snapVal, name)
           found == {i \in 1..Len(ms) : IdOf(ms[i].attrs) = IdOf(model)}
       IN  IF found = {}
           THEN [models |-> ms \o <<NewItem(model)>>, threw |-> FALSE,
                 applied |-> TRUE, did |-> Quiet]
           ELSE LET i == CHOOSE j \in found : \A k \in found : j <= k
                    r == ChildChangedItem(ms[i], model)
                IN  [models |-> [ms EXCEPT ![i] = r.model], threw |-> FALSE,
                     applied |-> TRUE, did |-> r.did]

\* _childChanged: a scalar value makes line 402 throw; so does a value whose
\* id no member has (line 411); otherwise the member found takes the value
Collection_childChanged(ms, snapVal, name) ==
  IF AssignIdThrows(snapVal)
  THEN [models |-> ms, threw |-> TRUE, applied |-> FALSE, did |-> Quiet]
  ELSE LET model == WithId(snapVal, name)
           found == {i \in 1..Len(ms) : IdOf(ms[i].attrs) = IdOf(model)}
       IN  IF found = {}
           THEN [models |-> ms, threw |-> TRUE, applied |-> FALSE, did |-> Quiet]
           ELSE LET i == CHOOSE j \in found : \A k \in found : j <= k
                    r == ChildChangedItem(ms[i], model)
                IN  [models |-> [ms EXCEPT ![i] = r.model], threw |-> FALSE,
                     applied |-> TRUE, did |-> r.did]

-----------------------------------------------------------------------------
(* SpecItem: the member record, its child_changed events and the caller's   *)
(* changes.                                                                 *)

NoItemOp == [kind |-> "none", val |-> Null, threw |-> FALSE] @@ Quiet

ItemIdle ==
  /\ item = NewItem(EmptyMap)
  /\ itemOp = NoItemOp

InitItem ==
  /\ item \in {NewItem(WithId(m, ItemName)) : m \in ItemSnapMaps}
  /\ itemOp = NoItemOp

\* a child_changed event for the member: _childChanged on the collection
\* that holds it
ChildChanged(snapVal) ==
  /\ LET r == Collection_childChanged(<<item>>, snapVal, ItemName)
     IN  /\ item' = r.models[1]
         /\ itemOp' = [kind |-> "child_changed", val |-> snapVal, threw |-> r.threw]
                        @@ r.did
  /\ UNCHANGED <<recVars, collVars>>

\* the caller sets attributes of the member
MemberSet(new) ==
  /\ LET r == ItemSet(item, new)
     IN  /\ item' = r.model
         /\ itemOp' = [kind |-> "set", val |-> Null, threw |-> FALSE] @@ r.did
  /\ UNCHANGED <<recVars, collVars>>

\* the caller unsets an attribute of the member
MemberUnset(key) ==
  /\ LET r == ItemUnset(item, key)
     IN  /\ item' = r.model
         /\ itemOp' = [kind |-> "unset", val |-> Null, threw |-> FALSE] @@ r.did
  /\ UNCHANGED <<recVars, collVars>>

NextItem ==
  \/ \E snapVal \in ItemSnapMaps \cup {Num(1)} : ChildChanged(snapVal)
  \/ \E new \in ItemSets : MemberSet(new)
  \/ \E key \in {"v", "w", ".priority"} : MemberUnset(key)

-----------------------------------------------------------------------------
(* SpecColl: the collection and the node it is bound to.                    *)

NoCollOp ==
  [kind |-> "none", id |-> 0, local |-> FALSE, silent |-> FALSE, solo |-> FALSE,
   applied |-> FALSE, threw |-> FALSE,
   notified |-> FALSE, flagBefore |-> FALSE, flagAfter |-> FALSE, recs |-> <<>>,
   writes |-> <<>>, resets |-> 0]

CollIdle ==
  /\ models = <<>>
  /\ suppress = FALSE
  /\ store = EmptyMap
  /\ events = <<>>
  /\ replayed = {}
  /\ collOp = NoCollOp

\* the constructor: an empty collection, _suppressEvent false (line 283)
InitColl ==
  /\ models = <<>>
  /\ suppress = FALSE
  /\ store = EmptyMap
  /\ events = <<>>
  /\ replayed = {}
  /\ collOp = NoCollOp

\* the origin of the writes of one add or remove call, and of another client's
Origin(recs, silent) ==
  [local |-> TRUE, silent |-> silent, solo |-> Len(recs) = 1 /\ ~suppress]
Foreign == [local |-> FALSE, silent |-> FALSE, solo |-> FALSE]

\* collection.add(recs, {silent: silent})
Add(recs, silent) ==
  /\ Len(events) + Len(recs) <= MaxEvents
  /\ LET r == SetEach(store, events, suppress, recs, Origin(recs, silent), FALSE)
     IN  /\ store' = r.store
         /\ events' = r.events
         /\ suppress' = r.flag
         /\ collOp' = [NoCollOp EXCEPT !.kind = "add", !.silent = silent,
                         !.flagBefore = suppress, !.flagAfter = r.flag,
                         !.recs = recs, !.writes = r.writes]
  /\ UNCHANGED <<models, replayed, recVars, itemVars>>

\* collection.remove(recs, {silent: silent})
Remove(recs, silent) ==
  /\ Len(events) + Len(recs) <= MaxEvents
  /\ LET r == SetEach(store, events, suppress, recs, Origin(recs, silent), TRUE)
     IN  /\ store' = r.store
         /\ events' = r.events
         /\ suppress' = r.flag
         /\ collOp' = [NoCollOp EXCEPT !.kind = "remove", !.silent = silent,
                         !.flagBefore = suppress, !.flagAfter = r.flag,
                         !.recs = recs, !.writes = r.writes]
  /\ UNCHANGED <<models, replayed, recVars, itemVars>>

\* a faulty reset: "reset" is triggered once for every record given
ResetNotes_PerRecord(recs, silent) == IF silent THEN 0 ELSE Len(recs)

\* lines 348-350: "reset" is triggered once, unless options.silent
ResetNotes(recs, silent) == IF silent THEN 0 ELSE 1

\* this.models as _parseModels hands them to the loop of remove
ModelsJSON == [i \in 1..Len(models) |-> models[i].attrs]

\* collection.reset(recs, {silent: silent}): remove(this.models, {silent:
\* true}), add(recs, {silent: true}), then the "reset" notification
Reset(recs, silent) ==
  /\ events = <<>>
  /\ LET origin == [local |-> TRUE, silent |-> TRUE,
                    solo |-> Len(models) + Len(recs) = 1 /\ ~suppress]
         rm == SetEach(store, events, suppress, ModelsJSON, origin, TRUE)
         ad == SetEach(rm.store, rm.events, rm.flag, recs, origin, FALSE)
     IN  /\ store' = ad.store
         /\ events' = ad.events
         /\ suppress' = ad.flag
         /\ collOp' = [NoCollOp EXCEPT !.kind = "reset", !.silent = silent,
                         !.flagBefore = suppress, !.flagAfter = ad.flag,
                         !.recs = recs, !.writes = rm.writes \o ad.writes,
                         !.resets = ResetNotes(recs, silent)]
  /\ UNCHANGED <<models, replayed, recVars, itemVars>>

\* collection.create(rec, {silent: silent}): _prepareModel makes a record of
\* the attributes, add([model], options) sets it remotely
Create(rec, silent) ==
  /\ Len(events) < MaxEvents
  /\ LET r == SetEach(store, events, suppress, <<rec>>, Origin(<<rec>>, silent), FALSE)
     IN  /\ store' = r.store
         /\ events' = r.events
         /\ suppress' = r.flag
         /\ collOp' = [NoCollOp EXCEPT !.kind = "create", !.silent = silent,
                         !.flagBefore = suppress, !.flagAfter = r.flag,
                         !.recs = <<rec>>, !.writes = r.writes]
  /\ UNCHANGED <<models, replayed, recVars, itemVars>>

\* the identifier of a child event: the id field of its value, or the
\* child's name when the value has none
EventId(ev) ==
  IF IsObject(ev.val) /\ ~IsNullish(Get(ev.val, "id")) THEN ev.val["id"].n ELSE ev.id

\* another client sets (or, with null, removes) a child
RemoteWrite(id, value) ==
  /\ Len(events) < MaxEvents
  /\ LET r == StoreSet(store, events, id, value, Foreign)
     IN  /\ store' = r.store
         /\ events' = r.events
  /\ collOp' = [NoCollOp EXCEPT !.kind = "remote", !.id = id,
                  !.flagBefore = suppress, !.flagAfter = suppress]
  /\ UNCHANGED <<models, suppress, replayed, recVars, itemVars>>

\* the remote store delivers its oldest pending child_added event
DeliverAdded ==
  /\ events # <<>>
  /\ Head(events).kind = "child_added"
  /\ LET ev == Head(events)
         r  == ChildAdded(models, suppress, ev.val, Str(ev.id))
     IN  /\ models' = r.models
         /\ suppress' = r.flag
         /\ collOp' = [NoCollOp EXCEPT !.kind = ev.kind, !.id = ev.id,
                         !.local = ev.local, !.silent = ev.silent,
                         !.solo = ev.solo,
                         !.applied = r.applied, !.notified = r.notified,
                         !.flagBefore = suppress, !.flagAfter = r.flag]
  /\ events' = Tail(events)
  /\ replayed' = replayed \cup {EventId(Head(events))}
  /\ UNCHANGED <<store, recVars, itemVars>>

\* the remote store delivers its oldest pending child_removed event
DeliverRemoved ==
  /\ events # <<>>
  /\ Head(events).kind = "child_removed"
  /\ LET ev == Head(events)
         r  == ChildRemoved(models, suppress, ev.val, Str(ev.id))
     IN  /\ models' = r.models
         /\ suppress' = r.flag
         /\ collOp' = [NoCollOp EXCEPT !.kind = ev.kind, !.id = ev.id,
                         !.local = ev.local, !.silent = ev.silent,
                         !.solo = ev.solo,
                         !.applied = r.applied, !.notified = r.notified,
                         !.threw = r.threw,
                         !.flagBefore = suppress, !.flagAfter = r.flag]
  /\ events' = Tail(events)
  /\ replayed' = replayed \ {EventId(Head(events))}
  /\ UNCHANGED <<store, recVars, itemVars>>

\* the remote store delivers its oldest pending child_changed event
DeliverChanged ==
  /\ events # <<>>
  /\ Head(events).kind = "child_changed"
  /\ LET ev == Head(events)
         r  == Collection_childChanged(models, ev.val, Str(ev.id))
     IN  /\ models' = r.models
         /\ collOp' = [NoCollOp EXCEPT !.kind = ev.kind, !.id = ev.id,
                         !.local = ev.local, !.silent = ev.silent,
                         !.solo = ev.solo,
                         !.applied = r.applied, !.threw = r.threw,
                         !.flagBefore = suppress, !.flagAfter = suppress,
                         !.writes = r.did.writes]
  /\ events' = Tail(events)
  /\ UNCHANGED <<store, suppress, replayed, recVars, itemVars>>

\* what another client writes at the child named Str(id) when every client
\* keeps to the layout of add: a record of that id, or null to remove the child
ForeignVals(id) == {r \in CollRecs : IdOf(r) = id} \cup {Null}

\* what any client may write at a child, free of that layout: at the first
\* child also a record whose id field is not the child's name, at the second
\* also a scalar
StrayVals(id) ==
  IF id = 1 THEN {CollRec(1, 1), CollRec(2, 1), Null} ELSE {CollRec(2, 1), Num(1), Null}

\* the record lists given to reset: none, one or two records
ResetSeqs == {<<>>, <<CollRec(1, 2)>>, <<CollRec(1, 1), CollRec(2, 1)>>}

CollSeqs == {<<r>> : r \in CollRecs} \cup {<<r, q>> : r \in CollRecs, q \in CollRecs}

NextColl ==
  \/ \E recs \in CollSeqs, silent \in BOOLEAN : Add(recs, silent)
  \/ \E recs \in CollSeqs, silent \in BOOLEAN : Remove(recs, silent)
  \/ \E id \in CollIds : \E value \in ForeignVals(id) : RemoteWrite(id, value)
  \/ \E recs \in ResetSeqs, silent \in BOOLEAN : Reset(recs, silent)
  \/ \E rec \in CollRecs, silent \in BOOLEAN : Create(rec, silent)
  \/ DeliverAdded
  \/ DeliverRemoved
  \/ DeliverChanged

\* the record of an operation: its kind, the snapshot value it applied, the
\* id the record had before it, the remote reads it issued, whether it threw,
\* the writes issued while the value was applied and those issued by the rest
NoOp == [kind |-> "none", val |-> Null, idBefore |-> Undefined, reads |-> 0,
         threw |-> FALSE, failed |-> FALSE, applyWrites |-> <<>>,
         syncWrites |-> <<>>]

\* the constructor of Backbone.Firebase.Model, called with one of the
\* attribute maps of P
Construct(P) ==
  /\ autoSync \in BOOLEAN
  /\ passed \in P
  /\ attributes = BackboneModel(passed)
  /\ subscribed = autoSync
  /\ oncePending = TRUE
  /\ syncCount = 0
  /\ defaultsRuns = 0
  /\ valueCount = 0
  /\ nWrites = 0
  /\ explicitSync = FALSE
  /\ touched = {}
  /\ recOp = NoOp

InitRec == Construct(RecMaps)

\* a node nothing is in flight to or from, and a record never destroyed
NodeIdle ==
  /\ node = Null
  /\ outbox = <<>>
  /\ inbox = <<>>
  /\ input = FALSE
  /\ destroys = 0
  /\ notices = 0
  /\ calls = [success |-> 0, error |-> 0]

RecIdle ==
  /\ autoSync = FALSE
  /\ passed = EmptyMap
  /\ attributes = EmptyMap
  /\ subscribed = FALSE
  /\ oncePending = FALSE
  /\ syncCount = 0
  /\ defaultsRuns = 0
  /\ valueCount = 0
  /\ nWrites = 0
  /\ explicitSync = FALSE
  /\ touched = {}
  /\ recOp = NoOp
  /\ NodeIdle

\* the 'value' handler of SyncModel: _setLocal(snap), then trigger('sync')
RemoteValue(snapVal) ==
  /\ subscribed
  /\ valueCount < MaxValues
  /\ nWrites < MaxRecWrites
  /\ LET s == SetLocal(autoSync, attributes, snapVal)
         d == IF oncePending THEN ApplyDefaults(autoSync, s.attrs)
              ELSE [attrs |-> s.attrs, writes |-> <<>>]
     IN  /\ attributes' = d.attrs
         /\ nWrites' = nWrites + Len(s.writes) + Len(d.writes)
         /\ recOp' = [kind |-> "value", val |-> snapVal,
                     idBefore |-> Get(attributes, "id"), reads |-> 0, threw |-> FALSE, failed |-> FALSE,
                     applyWrites |-> s.writes, syncWrites |-> d.writes]
  /\ syncCount' = TriggerSync(syncCount)
  /\ defaultsRuns' = IF oncePending THEN defaultsRuns + 1 ELSE defaultsRuns
  /\ oncePending' = FALSE
  /\ valueCount' = valueCount + 1
  /\ UNCHANGED <<autoSync, passed, subscribed, explicitSync, touched, nodeVars, itemVars, collVars>>

\* the caller sets one attribute of the record
LocalSet(k, v) ==
  /\ nWrites < MaxRecWrites
  /\ LET r == ModelSet(autoSync, attributes, [x \in {k} |-> v], FALSE)
     IN  /\ attributes' = r.attrs
         /\ nWrites' = nWrites + Len(r.writes)
         /\ recOp' = [kind |-> "set", val |-> Null,
                     idBefore |-> Get(attributes, "id"), reads |-> 0, threw |-> FALSE, failed |-> FALSE, applyWrites |-> <<>>, syncWrites |-> r.writes]
  /\ touched' = touched \cup {k}
  /\ UNCHANGED <<autoSync, passed, subscribed, oncePending, syncCount, defaultsRuns,
                 valueCount, explicitSync, nodeVars, itemVars, collVars>>

\* the caller unsets one attribute of the record
LocalUnset(k) ==
  /\ nWrites < MaxRecWrites
  /\ LET r == ModelUnset(autoSync, attributes, k)
     IN  /\ attributes' = r.attrs
         /\ nWrites' = nWrites + Len(r.writes)
         /\ recOp' = [kind |-> "unset", val |-> Null,
                     idBefore |-> Get(attributes, "id"), reads |-> 0, threw |-> FALSE, failed |-> FALSE, applyWrites |-> <<>>, syncWrites |-> r.writes]
  /\ touched' = touched \cup {k}
  /\ UNCHANGED <<autoSync, passed, subscribed, oncePending, syncCount, defaultsRuns,
                 valueCount, explicitSync, nodeVars, itemVars, collVars>>

\* Backbone.Firebase.sync(method, model, options): a one-shot read for
\* 'read', a set of the whole record for 'create', a merge-update of the
\* whole record for 'update'
BackboneFirebaseSync(method, attrs) ==
  [reads  |-> IF method = "read" THEN 1 ELSE 0,
   writes |-> IF method = "create" THEN <<SetWrite(attrs)>>
              ELSE IF method = "update" THEN <<Update(attrs)>>
              ELSE <<>>]

\* Backbone.Firebase.sync for 'create' and 'update', reached by save() on a
\* one-shot record
FirebaseSync(attrs) ==
  BackboneFirebaseSync(IF IsNullish(Get(attrs, "id")) THEN "create" ELSE "update",
                       attrs).writes

\* a faulty continuous record: its save, fetch and sync are those of the
\* one-shot record
SyncModelProto_Delegates(method, attrs) ==
  BackboneFirebaseSync(IF method \in {"fetch", "read"} THEN "read"
                       ELSE IF method = "save" /\ IsNullish(Get(attrs, "id")) THEN "create"
                       ELSE IF method = "save" THEN "update"
                       ELSE method, attrs)

\* SyncModel.protoype (lines 76-86), which the constructor copies onto a
\* continuous record: save, fetch and sync log a warning and do nothing else
SyncModelProto(method, attrs) == [reads |-> 0, writes |-> <<>>]

\* save(): the one-shot record pushes its attributes once; on a continuous
\* record save is replaced by the warning of SyncModel.protoype
Save ==
  /\ nWrites < MaxRecWrites
  /\ LET w == IF autoSync THEN SyncModelProto("save", attributes).writes
              ELSE FirebaseSync(attributes)
     IN  /\ nWrites' = nWrites + Len(w)
         /\ recOp' = [kind |-> "save", val |-> Null,
                     idBefore |-> Get(attributes, "id"), reads |-> 0, threw |-> FALSE, failed |-> FALSE, applyWrites |-> <<>>, syncWrites |-> w]
  /\ explicitSync' = TRUE
  /\ UNCHANGED <<autoSync, attributes, passed, subscribed, oncePending, syncCount,
                 defaultsRuns, valueCount, touched, nodeVars, itemVars, collVars>>

\* fetch(): on a continuous record the warning of SyncModel.protoype.  On a
\* one-shot record Backbone's fetch calls sync('read'), sets the value read
\* (set(null) does nothing) and triggers 'sync', which runs the
\* once-listener of the constructor the first time
Fetch(snapVal) ==
  /\ valueCount < MaxValues
  /\ nWrites < MaxRecWrites
  /\ IF autoSync
     THEN LET r == SyncModelProto("fetch", attributes)
          IN  /\ recOp' = [NoOp EXCEPT !.kind = "fetch", !.reads = r.reads,
                               !.idBefore = Get(attributes, "id"),
                               !.syncWrites = r.writes]
              /\ nWrites' = nWrites + Len(r.writes)
              /\ UNCHANGED <<attributes, syncCount, defaultsRuns, oncePending, valueCount>>
     ELSE LET r == BackboneFirebaseSync("read", attributes)
              s == IF IsObject(snapVal) THEN ModelSet(autoSync, attributes, snapVal, FALSE)
                   ELSE [attrs |-> attributes, writes |-> <<>>]
              d == IF oncePending THEN ApplyDefaults(autoSync, s.attrs)
                   ELSE [attrs |-> s.attrs, writes |-> <<>>]
          IN  /\ attributes' = d.attrs
              /\ recOp' = [NoOp EXCEPT !.kind = "fetch", !.val = snapVal,
                               !.reads = r.reads, !.idBefore = Get(attributes, "id"),
                               !.applyWrites = s.writes,
                               !.syncWrites = r.writes \o d.writes]
              /\ nWrites' = nWrites + Len(r.writes) + Len(s.writes) + Len(d.writes)
              /\ syncCount' = TriggerSync(syncCount)
              /\ defaultsRuns' = IF oncePending THEN defaultsRuns + 1 ELSE defaultsRuns
              /\ oncePending' = FALSE
              /\ valueCount' = valueCount + 1
  /\ UNCHANGED <<autoSync, passed, subscribed, explicitSync, touched, nodeVars, itemVars, collVars>>

\* sync(method, model, options) called by the caller: the warning of
\* SyncModel.protoype on a continuous record, Backbone.Firebase.sync on a
\* one-shot record (OnceModel.protoype.sync)
ExplicitSync(method) ==
  /\ nWrites < MaxRecWrites
  /\ LET r == IF autoSync THEN SyncModelProto(method, attributes)
              ELSE BackboneFirebaseSync(method, attributes)
     IN  /\ recOp' = [NoOp EXCEPT !.kind = "sync", !.reads = r.reads,
                          !.idBefore = Get(attributes, "id"),
                          !.syncWrites = r.writes]
         /\ nWrites' = nWrites + Len(r.writes)
  /\ explicitSync' = TRUE
  /\ UNCHANGED <<autoSync, attributes, passed, subscribed, oncePending, syncCount,
                 defaultsRuns, valueCount, touched, nodeVars, itemVars, collVars>>

NextRec ==
  \/ \E snapVal \in SnapVals : RemoteValue(snapVal)
  \/ \E k \in {"a", "b"}, v \in RecVals : LocalSet(k, v)
  \/ \E k \in {"a", "b"} : LocalUnset(k)
  \/ Save
  \/ \E snapVal \in SnapVals : Fetch(snapVal)
  \/ \E method \in {"read", "create", "update"} : ExplicitSync(method)

InitSpecRec == InitRec /\ NodeIdle /\ ItemIdle /\ CollIdle
SpecRec == InitSpecRec /\ [][NextRec]_vars

InitSpecItem == InitItem /\ RecIdle /\ CollIdle
SpecItem == InitSpecItem /\ [][NextItem]_vars

InitSpecColl == InitColl /\ RecIdle /\ ItemIdle
SpecColl == InitSpecColl /\ [][NextColl]_vars

\* SpecStray: the collection on a node whose children are written freely
NextStray ==
  \/ Add(<<CollRec(1, 1)>>, FALSE)
  \/ Remove(<<CollRec(1, 1)>>, FALSE)
  \/ Reset(<<CollRec(2, 1)>>, FALSE)
  \/ Create(CollRec(2, 1), FALSE)
  \/ \E id \in CollIds : \E value \in StrayVals(id) : RemoteWrite(id, value)
  \/ DeliverAdded
  \/ DeliverRemoved
  \/ DeliverChanged

InitSpecStray == InitColl /\ RecIdle /\ ItemIdle
SpecStray == InitSpecStray /\ [][NextStray]_vars

-----------------------------------------------------------------------------
(* SpecId: one record and its identifier.  The caller may pass an id of its *)
(* own (Str(5)); the node's value may hold no id field, the node's own name *)
(* (Str(7)) or another id (Str(9)), and may be a scalar.                    *)

IdPassed ==
  {Extend(a, b) : a \in UNION {[S -> {Str(5)}] : S \in SUBSET {"id"}},
                  b \in UNION {[S -> {Num(1)}] : S \in SUBSET {"a"}}}
IdSnapMaps ==
  {Extend(a, b) : a \in UNION {[S -> {Str(7), Str(9)}] : S \in SUBSET {"id"}},
                  b \in UNION {[S -> RecVals] : S \in SUBSET {"a"}}} \ {EmptyMap}
\* snap.val(): an object, a scalar, or null
IdSnapVals == IdSnapMaps \cup {Num(1), Null}

NextId ==
  \/ \E snapVal \in IdSnapVals : RemoteValue(snapVal)
  \/ \E v \in RecVals : LocalSet("a", v)
  \/ LocalSet("id", Str(5))
  \/ LocalUnset("a")

InitSpecId == Construct(IdPassed) /\ NodeIdle /\ ItemIdle /\ CollIdle
SpecId == InitSpecId /\ [][NextId]_vars

-----------------------------------------------------------------------------
(* SpecDestroy and SpecLoop: one record and the node it is bound to         *)
(* (this.firebase).  A write the record issues waits in outbox until the    *)
(* store applies or refuses it; the store raises a 'value' event when the   *)
(* value of the node changes, and the event waits in inbox until the        *)
(* record's handler runs.                                                   *)

MaxDestroys == 2
MaxPending == 4

\* the completion callbacks a caller passes with a write
NoCallbacks == [success |-> FALSE, error |-> FALSE]
Callbacks == [success : BOOLEAN, error : BOOLEAN]

\* ref.set / ref.update as the record calls them: the write and its callbacks
Pending(w, opts) == [write |-> w, success |-> opts.success, error |-> opts.error]
PendAll(ws) == [i \in 1..Len(ws) |-> Pending(ws[i], NoCallbacks)]

\* the value of the node once the store has applied a write: update merges
\* into the children, a null child is deleted, a node with no child is null
StoreWrite(nd, w) ==
  LET old    == IF IsObject(nd) THEN nd ELSE EmptyMap
      merged == IF w.op = "update" THEN Extend(old, w.val) ELSE w.val
  IN  IF ~IsObject(merged) THEN merged
      ELSE LET keep == {k \in DOMAIN merged : ~IsNullish(merged[k])}
           IN  IF keep = {} THEN Null ELSE [k \in keep |-> merged[k]]

\* the values the node may hold when the record is constructed
NodeVals == {Null, [k \in {"a"} |-> Num(1)], [k \in {"a"} |-> Num(2)],
             [k \in {"a", "b"} |-> Num(2)]}
\* what the caller passes to the constructor
NodePassed == {EmptyMap, [k \in {"a"} |-> Num(1)]}

\* the constructor on a node holding one of the values of N: in continuous
\* mode on('value') raises a first event with the value the node holds
ConstructOn(P, N) ==
  /\ Construct(P)
  /\ node \in N
  /\ outbox = <<>>
  /\ inbox = IF autoSync THEN <<node>> ELSE <<>>
  /\ input = FALSE
  /\ destroys = 0
  /\ notices = 0
  /\ calls = [success |-> 0, error |-> 0]

\* a queue has outgrown the model: the store and the handler stop
Full == Len(outbox) >= MaxPending \/ Len(inbox) >= MaxPending

\* a faulty completion callback of destroy: success is reported whatever the
\* outcome
DestroyDone_AlwaysSuccess(err, options) ==
  [success |-> IF options.success THEN 1 ELSE 0, error |-> 0]

\* the completion callback destroy passes to set(null)
DestroyDone(err, options) ==
  [success |-> IF ~err /\ options.success THEN 1 ELSE 0,
   error   |-> IF err /\ options.error THEN 1 ELSE 0]

\* destroy(options): set(null, callback), then trigger('destroy')
Destroy(options) ==
  /\ destroys < MaxDestroys
  /\ outbox' = Append(outbox, Pending(SetWrite(Null), options))
  /\ notices' = notices + 1
  /\ destroys' = destroys + 1
  /\ recOp' = [NoOp EXCEPT !.kind = "destroy", !.syncWrites = <<SetWrite(Null)>>]
  /\ UNCHANGED <<autoSync, attributes, passed, subscribed, oncePending, syncCount,
                 defaultsRuns, valueCount, nWrites, explicitSync, touched,
                 node, inbox, input, calls, itemVars, collVars>>

\* the store applies the oldest pending write, or refuses it (failed); it
\* raises a 'value' event when the value of the node has changed, and calls
\* the write's completion callback
StoreApply(failed) ==
  /\ outbox # <<>>
  /\ ~Full
  /\ LET w    == Head(outbox)
         next == IF failed THEN node ELSE StoreWrite(node, w.write)
         done == DestroyDone(failed, w)
     IN  /\ node' = next
         /\ inbox' = IF subscribed /\ next # node THEN Append(inbox, next) ELSE inbox
         /\ calls' = [success |-> calls.success + done.success,
                      error |-> calls.error + done.error]
         /\ recOp' = [NoOp EXCEPT !.kind = "completed", !.val = w.write.val,
                                  !.failed = failed]
  /\ outbox' = Tail(outbox)
  /\ UNCHANGED <<autoSync, attributes, passed, subscribed, oncePending, syncCount,
                 defaultsRuns, valueCount, nWrites, explicitSync, touched,
                 input, destroys, notices, itemVars, collVars>>

\* the 'value' handler of SyncModel on the oldest pending event; the writes
\* it issues are handed to the store
DeliverValue ==
  /\ inbox # <<>>
  /\ ~Full
  /\ LET s == SetLocal(autoSync, attributes, Head(inbox))
         d == IF oncePending THEN ApplyDefaults(autoSync, s.attrs)
              ELSE [attrs |-> s.attrs, writes |-> <<>>]
     IN  /\ attributes' = d.attrs
         /\ outbox' = outbox \o PendAll(s.writes \o d.writes)
         /\ recOp' = [NoOp EXCEPT !.kind = "delivered", !.val = Head(inbox),
                                  !.idBefore = Get(attributes, "id"),
                                  !.applyWrites = s.writes, !.syncWrites = d.writes]
  /\ inbox' = Tail(inbox)
  /\ oncePending' = FALSE
  /\ UNCHANGED <<autoSync, passed, subscribed, syncCount, defaultsRuns, valueCount,
                 nWrites, explicitSync, touched, node, input, destroys, notices,
                 calls, itemVars, collVars>>

\* the one local change: the caller sets one attribute of the record
LoopSet(k, v) ==
  /\ ~input
  /\ ChangedKeys(attributes, [x \in {k} |-> v]) # {}
  /\ LET r == ModelSet(autoSync, attributes, [x \in {k} |-> v], FALSE)
     IN  /\ attributes' = r.attrs
         /\ outbox' = outbox \o PendAll(r.writes)
         /\ recOp' = [NoOp EXCEPT !.kind = "set", !.syncWrites = r.writes]
  /\ input' = TRUE
  /\ UNCHANGED <<autoSync, passed, subscribed, oncePending, syncCount, defaultsRuns,
                 valueCount, nWrites, explicitSync, touched, node, inbox, destroys,
                 notices, calls, itemVars, collVars>>

\* the one external change: another client gives the node a new value
External(value) ==
  /\ ~input
  /\ value # node
  /\ node' = value
  /\ inbox' = IF subscribed THEN Append(inbox, value) ELSE inbox
  /\ input' = TRUE
  /\ recOp' = [NoOp EXCEPT !.kind = "external", !.val = value]
  /\ UNCHANGED <<autoSync, attributes, passed, subscribed, oncePending, syncCount,
                 defaultsRuns, valueCount, nWrites, explicitSync, touched, outbox,
                 destroys, notices, calls, itemVars, collVars>>

NextDestroy ==
  \/ \E options \in Callbacks : Destroy(options)
  \/ \E failed \in BOOLEAN : StoreApply(failed)
  \/ DeliverValue

InitSpecDestroy == ConstructOn(NodePassed, NodeVals) /\ ItemIdle /\ CollIdle
SpecDestroy == InitSpecDestroy /\ [][NextDestroy]_vars

\* the store applies every write (no write is refused) and every event
\* reaches the handler
NextLoop ==
  \/ \E k \in {"a", "b"}, v \in RecVals : LoopSet(k, v)
  \/ \E value \in NodeVals : External(value)
  \/ StoreApply(FALSE)
  \/ DeliverValue

InitSpecLoop == ConstructOn(NodePassed, NodeVals) /\ autoSync /\ ItemIdle /\ CollIdle
SpecLoop == InitSpecLoop /\ [][NextLoop]_vars
              /\ WF_vars(StoreApply(FALSE)) /\ WF_vars(DeliverValue)

-----------------------------------------------------------------------------
(* The claims.                                                              *)

\* C1: the child_added echo of a silent add of one record, made while the
\* suppression flag was false, issues exactly one remote set at path/<id>,
\* fires no local "add" notification and leaves the record in the collection
\* exactly once.
C1_EchoSuppressedOnAdd ==
  /\ (collOp.kind = "add" /\ collOp.silent /\ ~collOp.flagBefore /\ Len(collOp.recs) = 1)
       => collOp.writes = <<[op |-> "set", id |-> IdOf(collOp.recs[1]),
                             val |-> collOp.recs[1]]>>
  /\ (collOp.kind = "child_added" /\ collOp.local /\ collOp.silent /\ collOp.solo
        /\ collOp.flagBefore)
       => /\ ~collOp.notified
          /\ Cardinality({i \in 1..Len(models) : IdOf(models[i].attrs) = collOp.id}) = 1

\* C2: while a remote value is applied to a continuous-mode record (keys
\* unset, snapshot keys merged), the record issues no remote write.
C2_NoWriteWhileApplying ==
  (autoSync /\ recOp.kind = "value") => Len(recOp.applyWrites) = 0

\* C3: a one-shot record on which save was never called has issued no
\* remote write and holds no continuous subscription, whatever attributes
\* were set and unset locally.
C3_OneShotIsolation ==
  (~autoSync /\ ~explicitSync) => (nWrites = 0 /\ ~subscribed)

\* C3 witness: a one-shot record, never saved, after a local set of "b" and
\* a local unset of "a" (which the one-shot callback stores as null)
C3_Witness ==
  /\ ~autoSync /\ ~explicitSync
  /\ recOp.kind = "unset"
  /\ touched = {"a", "b"}
  /\ Get(attributes, "a") = Null
  /\ Get(attributes, "b") = Num(1)

\* an event that echoes a silent write of this collection
IsSilentEcho(op) == op.local /\ op.silent

\* C4: a child_added or child_removed event that is not the echo of a silent
\* write neither clears the suppression flag nor loses its own notification,
\* and the echo of every silent write is suppressed.
C4_FlagConsumedOnlyByOwnEcho ==
  collOp.kind \in {"child_added", "child_removed"} =>
    /\ ~IsSilentEcho(collOp) => collOp.flagAfter = collOp.flagBefore
    /\ (~IsSilentEcho(collOp) /\ collOp.applied) => collOp.notified
    /\ IsSilentEcho(collOp) => ~collOp.notified

\* C4 witness: an event that echoes no silent write found the flag raised
\* and cleared it
C4_FlagTakenByOtherEvent ==
  /\ collOp.kind \in {"child_added", "child_removed"}
  /\ ~IsSilentEcho(collOp)
  /\ collOp.flagBefore /\ ~collOp.flagAfter

\* C5: every key of the last-remote snapshot that the record no longer has
\* is in the computed patch, with value null.
C5_Tombstones ==
  itemOp.computed =>
    \A k \in DOMAIN item.remote \ DOMAIN item.attrs :
      k \in DOMAIN itemOp.patch /\ itemOp.patch[k] = Null

\* C5 witness: a local unset of "v", which the snapshot holds, computed a patch
C5_Witness ==
  /\ itemOp.kind = "unset" /\ itemOp.computed
  /\ "v" \in DOMAIN item.remote /\ "v" \notin DOMAIN item.attrs

\* two values differ by value (null and a missing value are both "nothing")
DiffersByValue(a, b) == ~IsEqual(a, b) /\ ~(IsNullish(a) /\ IsNullish(b))

\* C6: a key is in the computed patch exactly when the record does not have
\* it or its local value differs by value from the snapshot's, and then with
\* the local value.
C6_MinimalPatch ==
  itemOp.computed =>
    \A k \in DOMAIN item.remote \cup DOMAIN item.attrs :
      /\ k \in DOMAIN itemOp.patch <=>
           (k \notin DOMAIN item.attrs
              \/ DiffersByValue(item.attrs[k], Get(item.remote, k)))
      /\ (k \in DOMAIN itemOp.patch /\ k \in DOMAIN item.attrs)
           => itemOp.patch[k] = item.attrs[k]

\* C7: after a child_changed event has been applied to a member, the diff of
\* its stored snapshot and its attributes is empty, the application issued no
\* remote write, every listener run during it saw _remoteChanging true, and
\* the flag is false again.
C7_RoundTrip ==
  (itemOp.kind = "child_changed" /\ ~itemOp.threw) =>
    /\ Diff(item.remote, item.attrs) = EmptyMap
    /\ itemOp.writes = <<>>
    /\ itemOp.seen \subseteq {TRUE}
    /\ ~item.changing

\* C7 witness: a child_changed event whose application changed the member
\* (its listeners ran) and which took "w" away from it
C7_Witness ==
  /\ itemOp.kind = "child_changed"
  /\ itemOp.seen = {TRUE}
  /\ "v" \in DOMAIN item.attrs /\ "w" \notin DOMAIN item.attrs
  /\ item.attrs = item.remote

\* a full replace of the child with value and priority together
IsFullReplace(w) == w.op = "setWithPriority" /\ ".priority" \notin DOMAIN w.val

\* C8 as stated: a write made while ".priority" is in the union of the
\* snapshot's and the record's keys is a full replace, and no merge-update
\* holds ".priority".
C8_PriorityInUnionFullReplace ==
  \A i \in 1..Len(itemOp.writes) :
    /\ ".priority" \in DOMAIN item.remote \cup DOMAIN item.attrs
         => IsFullReplace(itemOp.writes[i])
    /\ itemOp.writes[i].op = "update" => ".priority" \notin DOMAIN itemOp.writes[i].val

\* C8 amended: a write made while ".priority" is in the computed patch is a
\* full replace, and no merge-update holds ".priority".
C8_PriorityInPatchFullReplace ==
  \A i \in 1..Len(itemOp.writes) :
    /\ (itemOp.computed /\ ".priority" \in DOMAIN itemOp.patch)
         => IsFullReplace(itemOp.writes[i])
    /\ itemOp.writes[i].op = "update" => ".priority" \notin DOMAIN itemOp.writes[i].val

\* C8 witness: a local set of ".priority" went out as setWithPriority
C8_Witness ==
  /\ itemOp.kind = "set"
  /\ Len(itemOp.writes) = 1
  /\ itemOp.writes[1].op = "setWithPriority"
  /\ itemOp.writes[1].priority = Num(1)

\* C9 as stated: a continuous-mode record that has received n >= 1 remote
\* values has emitted exactly one "sync" notification.
C9_SyncedOnce ==
  (autoSync /\ valueCount >= 1) => syncCount = 1

\* C9 amended: a continuous-mode record emits one "sync" notification per
\* remote value applied; the once-listener of the constructor, which applies
\* the defaults, runs exactly once, at the first.
C9_SyncedPerValue ==
  autoSync =>
    /\ syncCount = valueCount
    /\ defaultsRuns = (IF valueCount >= 1 THEN 1 ELSE 0)

\* C9 witness: two remote values have been applied
C9_Witness == autoSync /\ valueCount = 2 /\ syncCount = 2

\* C10: before the first remote value is applied, the record holds no
\* declared default that the caller did not pass or set.
C10_DefaultsAbsentBeforeSync ==
  valueCount = 0 =>
    \A k \in DOMAIN Defaults :
      k \in DOMAIN attributes => (k \in DOMAIN passed \/ k \in touched)

\* C11: when the first remote value applied to a continuous-mode record holds
\* a key K that has a declared default, the record's value of K after that
\* first sync is the remote value, and every remote write issued during it
\* that carries K carries the remote value: none puts the default in its place.
C11_DefaultsDoNotClobber ==
  (recOp.kind = "value" /\ valueCount = 1 /\ recOp.val # Null) =>
    \A K \in DOMAIN Defaults \cap DOMAIN recOp.val :
      /\ Get(attributes, K) = recOp.val[K]
      /\ \A i \in 1..Len(recOp.applyWrites \o recOp.syncWrites) :
           LET w == (recOp.applyWrites \o recOp.syncWrites)[i]
           IN  K \in DOMAIN w.val => w.val[K] = recOp.val[K]

\* C11 witness: a record built without "b" (it held the default 2) has had a
\* first remote value with b = 1 applied, and the defaults listener has run
C11_Witness ==
  /\ recOp.kind = "value" /\ valueCount = 1 /\ defaultsRuns = 1
  /\ "b" \notin DOMAIN passed /\ touched = {}
  /\ recOp.val # Null /\ Get(recOp.val, "b") = Num(1)
  /\ Get(attributes, "b") = Num(1)

\* C12: once a record has an identifier, the application of a remote value
\* leaves it with that same identifier.
C12_IdStable ==
  (recOp.kind = "value" /\ ~IsNullish(recOp.idBefore))
    => Get(attributes, "id") = recOp.idBefore

\* C13: a record with no identifier to which a remote snapshot is applied
\* ends with the snapshot's key as its identifier, no write issued during the
\* application carries the identifier key, and no patch of any operation
\* holds the identifier key as a tombstone.
C13_IdFromSnapshotKey ==
  /\ (recOp.kind = "value" /\ IsNullish(recOp.idBefore)) =>
       /\ Get(attributes, "id") = SnapName
       /\ \A i \in 1..Len(recOp.applyWrites \o recOp.syncWrites) :
            "id" \notin DOMAIN (recOp.applyWrites \o recOp.syncWrites)[i].val
  /\ \A i \in 1..Len(recOp.applyWrites \o recOp.syncWrites) :
       Get((recOp.applyWrites \o recOp.syncWrites)[i].val, "id") # Null

\* C14: a child_changed event whose identifier no member has fails with an
\* error and changes nothing: the members, their attributes and
\* remoteChanging flags, the suppression flag and the remote node are as
\* before, and no remote write is issued.
C14_UnknownChangeFails ==
  [][(collOp'.kind = "child_changed"
        /\ Head(events).kind = "child_changed"
        /\ IsObject(Head(events).val)
        /\ \A i \in 1..Len(models) :
             IdOf(models[i].attrs) # IdOf(WithId(Head(events).val, Str(Head(events).id))))
       => /\ collOp'.threw
          /\ models' = models
          /\ suppress' = suppress
          /\ store' = store
          /\ collOp'.writes = <<>>]_vars

\* C14 witness: a child_changed event for an id no member has was delivered
\* to a collection that holds a member, and threw
C14_Witness ==
  /\ collOp.kind = "child_changed" /\ collOp.threw
  /\ Len(models) = 1
  /\ IdOf(models[1].attrs) # collOp.id

\* C17: reset(records) on a collection of k members issues one null write
\* for each member, then one full set for each of the n new records, and one
\* "reset" notification, none when it is called with silent.
C17_ResetWrites ==
  collOp.kind = "reset" =>
    /\ collOp.writes =
         [i \in 1..Len(models) |->
            [op |-> "set", id |-> IdOf(models[i].attrs), val |-> Null]]
         \o [i \in 1..Len(collOp.recs) |->
              [op |-> "set", id |-> IdOf(collOp.recs[i]), val |-> collOp.recs[i]]]
    /\ collOp.resets = (IF collOp.silent THEN 0 ELSE 1)

\* C17 witness: a reset, not silent, of a collection of two members to two
\* records
C17_Witness ==
  /\ collOp.kind = "reset" /\ ~collOp.silent
  /\ Len(models) = 2 /\ Len(collOp.recs) = 2
  /\ Len(collOp.writes) = 4

\* the ids of the members are the ids left by the child_added and
\* child_removed events delivered so far, each held by one member
MembersAreReplayed ==
  /\ {IdOf(models[i].attrs) : i \in 1..Len(models)} = replayed
  /\ \A i, j \in 1..Len(models) :
       IdOf(models[i].attrs) = IdOf(models[j].attrs) => i = j

\* C20: add, remove, create and reset leave the members as they are, and in
\* every state the ids of the members are the ids left by the child_added
\* and child_removed events delivered so far, each held by one member.
C20_MembersFollowEvents ==
  /\ [][collOp'.kind \in {"add", "remove", "create", "reset"} => models' = models]_vars
  /\ []MembersAreReplayed

\* C15: when a remote value that is not an object is applied, by the value
\* event of a continuous-mode record or by a child_changed event for a
\* member, no key the record holds is unset and no error is raised.
C15_NonObjectValueTolerated ==
  /\ [][(recOp'.kind = "value" /\ ~IsObject(recOp'.val))
          => DOMAIN attributes \subseteq DOMAIN attributes']_vars
  /\ [][(itemOp'.kind = "child_changed" /\ ~IsObject(itemOp'.val))
          => (~itemOp'.threw /\ DOMAIN item.attrs \subseteq DOMAIN item'.attrs)]_vars

\* C16: on a continuous-mode record, save, fetch and an explicit sync issue
\* no remote read and no remote write, leave the attributes, the identifier
\* and the subscription as they are, and do not throw.
C16_ContinuousSyncCallsDoNothing ==
  [][(autoSync /\ recOp'.kind \in {"save", "fetch", "sync"})
       => /\ recOp'.reads = 0
          /\ recOp'.applyWrites = <<>> /\ recOp'.syncWrites = <<>>
          /\ nWrites' = nWrites
          /\ attributes' = attributes
          /\ subscribed' = subscribed
          /\ ~recOp'.threw]_vars

\* C16 witness: fetch was called on a continuous-mode record that holds "a"
\* and has had a remote value applied
C16_Witness ==
  /\ autoSync /\ recOp.kind = "fetch"
  /\ valueCount = 1 /\ "a" \in DOMAIN attributes /\ subscribed

\* C18: destroy issues exactly one write, set(null), and triggers 'destroy'
\* in the same step, before the write completes and without invoking a
\* callback; when the write completes, the error callback is invoked iff the
\* write failed and the caller supplied one, the success callback iff the
\* write succeeded and the caller supplied one, each once and never both;
\* a completion, failed or not, leaves the notifications as they are
C18_DestroyWritesNotifiesReports ==
  /\ [][recOp'.kind = "destroy" =>
          /\ recOp'.syncWrites = <<SetWrite(Null)>>
          /\ Len(outbox') = Len(outbox) + 1
          /\ outbox'[Len(outbox')].write = SetWrite(Null)
          /\ notices' = notices + 1
          /\ calls' = calls /\ node' = node]_vars
  /\ [][(recOp'.kind = "completed" /\ outbox # <<>> /\ recOp'.val = Null) =>
          LET w  == Head(outbox)
              ds == calls'.success - calls.success
              de == calls'.error - calls.error
          IN  /\ de = (IF recOp'.failed /\ w.error THEN 1 ELSE 0)
              /\ ds = (IF ~recOp'.failed /\ w.success THEN 1 ELSE 0)
              /\ ds + de <= 1
              /\ notices' = notices
              /\ recOp'.failed => node' = node]_vars
  /\ [](notices = destroys)

\* a destroy whose write the store refused: the error callback has run once,
\* no success callback has, the node still holds its value and the
\* notification stands
C18_Witness ==
  /\ recOp.kind = "completed" /\ recOp.failed /\ recOp.val = Null
  /\ calls = [success |-> 0, error |-> 1]
  /\ notices = 1 /\ node # Null

\* no write waits for the store and no event waits for the handler
Quiescent == outbox = <<>> /\ inbox = <<>>
\* the fields of a value of the node, the identifier aside
Fields(v) == IF IsObject(v) THEN Without(v, {"id"}) ELSE EmptyMap
\* the node holds what the record holds
Agrees == Fields(node) = Without(attributes, {"id"})

\* C19: in continuous mode, once the one local change or the one external
\* change has been made, the store applying every write and the handler
\* receiving every event, the record and the node come to rest (no write and
\* no event is pending; a run whose queues outgrow MaxPending is left out),
\* and whenever they are at rest the node holds the record's attributes,
\* the identifier aside
C19_FeedbackLoopFree ==
  /\ input ~> (Quiescent \/ Full)
  /\ []((input /\ Quiescent) => Agrees)
====
